---- MODULE Spec2Model ----
(***************************************************************************)
(* AnswerView (src/src/api/ui/AnswerView.tsx): one view instance.  The     *)
(* host runs every callback on a single event loop, so each action below   *)
(* is one run-to-completion slice of a handler: from where it is resumed   *)
(* up to its next await (or its end), together with the re-render and the  *)
(* effects that the state changes of that slice trigger.                   *)
(***************************************************************************)
EXTENDS Integers, Sequences, FiniteSets, TLC

\* ---- bounds -------------------------------------------------------------
MaxCalls == 3      \* GetModel calls issued by usePromise over one behaviour
MaxRuns  == 2      \* Run() invocations that pass the ModelGenerate test
MaxFrags == 2      \* "data" events one stream delivers before "done"

\* ---- values -------------------------------------------------------------
None == "none"                         \* undefined
Commands == {None, "fix", "image"}     \* AnswerView(command, ...)
ModelNames == {"m1", "m2"}
ExplicitModels == {None, "m2"}         \* AnswerView(..., model)
InputSources == {"SelectedText", "Clipboard"}
Fragments == {"a", "b"}
ImgTag == "<img>"                      \* the markup Run puts in front of an image answer
TagLists == {<<"m1">>, <<"m2", "m1">>}   \* OllamaApiTags().models, by name

NotInstalled  == "ModelNotInstalled"   \* ErrorOllamaModelNotInstalled
NotConfigured == "ModelNotConfigured"  \* ErrorRaycastModelNotConfiguredOnLocalStorage
CustomModel   == "CustomModel"         \* ErrorOllamaCustomModel
OtherError    == "Other"
ErrorKinds == {NotInstalled, NotConfigured, CustomModel, OtherError}

NoDesc == [name |-> None, call |-> 0]
NoStats == [eval_count |-> 0, eval_duration |-> 0]     \* {} : every field undefined
DonePayloads == {[eval_count |-> 50, eval_duration |-> 2000000000]}
\* "done" payloads with a field at zero, and one whose speed needs rounding
StatPayloads == DonePayloads \cup {[eval_count |-> 0, eval_duration |-> 2000000000],
                                    [eval_count |-> 50, eval_duration |-> 0],
                                    [eval_count |-> 1, eval_duration |-> 1500000000]}
NoFamilies == <<>>                     \* the ref before anything is assigned to it
NoReq == [model |-> None, prompt |-> None, system |-> None, images |-> None]

VARIABLES
  command, model,             \* the arguments of AnswerView
  prefInput, prefFallback,    \* preferences.ollamaResultViewInput, ...InputFallback
  storage,                    \* LocalStorage item `${command}_model_generate`
  ModelGenerate,              \* usePromise data (a descriptor, or NoDesc for undefined)
  IsLoadingModelGenerate,     \* usePromise isLoading
  lastCallId,                 \* usePromise's call counter: only the latest call is applied
  calls,                      \* the GetModel calls, by call id
  ModelGenerateFamilies,      \* the ref passed to SetModelView as Families
  loading, answer, answerMetadata, showAnswerMetadata, showSelectModelForm,
  nRuns, runs,                \* the Run() invocations and what each is waiting for
  shown,                      \* the showToast calls of the latest step, in order
  log                         \* what has been put into answer since it was last set afresh

vars == <<command, model, prefInput, prefFallback, storage, ModelGenerate,
          IsLoadingModelGenerate, lastCallId, calls, ModelGenerateFamilies,
          loading, answer, answerMetadata, showAnswerMetadata, showSelectModelForm,
          nRuns, runs, shown, log>>

params == <<command, model, prefInput, prefFallback>>
promise == <<ModelGenerate, IsLoadingModelGenerate, lastCallId, calls>>
view == <<loading, answerMetadata, showAnswerMetadata, showSelectModelForm>>

CallIds == 1..MaxCalls
RunIds == 1..MaxRuns

\* A GetModel call: where it waits, the list it fetched, the persisted value it
\* read (and whether it read one), and what it returned or threw.
NoCall == [pc |-> "unused", tags |-> <<>>, stored |-> None, read |-> FALSE,
           kind |-> None, out |-> NoDesc]
EndCall == [NoCall EXCEPT !.pc = "end"]
\* A Run() invocation: where it waits, the descriptor of the render it closes
\* over, the query and image it passes to Inference, the fragments its stream
\* has delivered, the "done" payload, the error OllamaApiGenerate threw.
\* Bookkeeping: reset (answer was empty when Run had reset it), staleDesc (desc
\* was older than the latest revalidation when Run was called), first / second
\* (how the primary and the fallback source settled), result (how acquisition
\* ended), overlap (another stream was open when the request was issued).
NoRun == [pc |-> "unused", desc |-> NoDesc, text |-> None, got |-> <<>>,
          reset |-> FALSE, first |-> None, second |-> None, result |-> None,
          clipText |-> FALSE, image |-> None, req |-> NoReq, overlap |-> FALSE,
          staleDesc |-> FALSE, stats |-> NoStats, kind |-> None]
EndRun == [NoRun EXCEPT !.pc = "end"]

\* ---- defaultPrompt ------------------------------------------------------
defaultPrompt(c) ==
  CASE c = "fix" -> "Act as a writer. Fix"
    [] c = "image" -> "Describe the content"
    [] OTHER -> None

\* The sub-view replaces the Detail only when a command is set.
SubViewShown == showSelectModelForm /\ command # None

\* <AnswerAction /> is rendered only when nothing is loading.
ActionsShown == ~SubViewShown /\ ~loading /\ ~IsLoadingModelGenerate


\* ---- <AnswerMetadata /> (lines 304-351) ----------------------------------
NanosPerSecond == 1000000000           \* 1e9

\* the metadata panel is rendered (lines 358-364; answerMetadata is an object)
MetadataShown ==
  /\ ~SubViewShown
  /\ ~loading
  /\ ~IsLoadingModelGenerate
  /\ ModelGenerate # NoDesc
  /\ showAnswerMetadata

\* a guard that looks at the token count alone
SpeedShown_CountOnly(stats) == stats.eval_count # 0

\* line 319: prop.answer.eval_count && prop.answer.eval_duration
SpeedShown(stats) == stats.eval_count # 0 /\ stats.eval_duration # 0

RECURSIVE GCD(_, _)
GCD(a, b) == IF b = 0 THEN a ELSE GCD(b, a % b)

\* (n / d).toFixed(2) for n, d >= 0: the decimal with two fraction digits
\* nearest to n / d; n / 0 is Infinity (NaN for 0 / 0) and prints as such
ToFixed2(n, d) ==
  IF d = 0 THEN (IF n = 0 THEN "NaN" ELSE "Infinity")
  ELSE LET h == (200 * n + d) \div (2 * d)
           c == h % 100
       IN ToString(h \div 100) \o "." \o (IF c < 10 THEN "0" ELSE "") \o ToString(c)

\* line 322: eval_count / (eval_duration / 1e9), toFixed(2), " token/s"; the
\* duration in seconds is kept as the fraction secN / secD in lowest terms
GenerationSpeed(stats) ==
  LET g == GCD(stats.eval_duration, NanosPerSecond)
      secN == stats.eval_duration \div g
      secD == NanosPerSecond \div g
  IN ToFixed2(stats.eval_count * secD, secN) \o " token/s"

\* the text of the "Generation Speed" label, None when it is not on screen
SpeedLabel ==
  IF MetadataShown /\ SpeedShown(answerMetadata)
  THEN GenerationSpeed(answerMetadata)
  ELSE None

\* ---- GetModel (pure parts) ----------------------------------------------
\* if (!model): is the persisted value consulted?
NeedsStorage(m) == m = None

\* a find that takes the first model of the list, whatever its name
Find_First(tags, name) == IF tags = <<>> THEN 0 ELSE 1

\* tags.models.find((t) => t.name === model): index of the first match, 0 for none
RECURSIVE FindFrom(_, _, _)
FindFrom(tags, name, i) ==
  IF i > Len(tags) THEN 0
  ELSE IF tags[i] = name THEN i
  ELSE FindFrom(tags, name, i + 1)

Find(tags, name) == FindFrom(tags, name, 1)

\* lines 173-175: the descriptor found for `name` in the list fetched by call `id`,
\* or the ModelNotInstalled error
Lookup(tags, name, id) ==
  IF Find(tags, name) = 0
  THEN [kind |-> NotInstalled, out |-> [name |-> name, call |-> 0]]
  ELSE [kind |-> None, out |-> [name |-> tags[Find(tags, name)], call |-> id]]

\* ---- HandleError (pure parts) -------------------------------------------
\* a classifier that also routes a malformed custom model to the flow
HandleErrorRoutes_Custom(kind) == kind \in {NotInstalled, NotConfigured, CustomModel}

\* line 107: the errors that route to the model-selection flow
HandleErrorRoutes(kind) == kind \in {NotInstalled, NotConfigured}

\* an error path that leaves the family filter alone
HandleErrorFamilies_Never(cmd, cur) == cur

\* line 112
HandleErrorFamilies(cmd, cur) == IF cmd = "image" THEN <<"clip">> ELSE cur

FailureToast(title) == [style |-> "Failure", title |-> title]

\* the showToast calls of one HandleError, lines 108-111, 116, 123
HandleErrorToasts(kind) ==
  IF HandleErrorRoutes(kind)
  THEN (IF kind = NotInstalled THEN <<FailureToast(kind)>> ELSE <<>>)
       \o (IF kind = NotConfigured THEN <<FailureToast(kind)>> ELSE <<>>)
  ELSE <<FailureToast(kind)>>

\* ---- Run / Inference (pure parts) ---------------------------------------
\* Run without its reset
RunResetAnswer_Keep(prev) == prev

\* line 183: setAnswer("")
RunResetAnswer(prev) == <<>>

\* a handler that drops a fragment equal to the one before it
AppendFragment_Dedup(prev, data) ==
  IF prev # <<>> /\ prev[Len(prev)] = data THEN prev ELSE Append(prev, data)

\* line 145: setAnswer((prevState) => prevState + data)
AppendFragment(prev, data) == Append(prev, data)

OtherSource(src) == IF src = "SelectedText" THEN "Clipboard" ELSE "SelectedText"

\* what a source yields when it succeeds
SourceText(src) == IF src = "SelectedText" THEN "selected text" ELSE "clipboard text"

\* a fallback branch that reports the primary source alone
AcquireFailTitle_Single(primary, fallback) ==
  IF primary = "SelectedText" THEN "NoTextSelected" ELSE "NoTextCopied"

\* lines 220-226 and 243-249: the notification when no text was obtained
AcquireFailTitle(primary, fallback) ==
  IF fallback THEN "NoTextSelectedOrCopied"
  ELSE IF primary = "SelectedText" THEN "NoTextSelected"
  ELSE "NoTextCopied"

\* lines 136-141: the request body
RequestBody(desc, query, images) ==
  [model |-> desc.name, prompt |-> query,
   system |-> IF command # None THEN defaultPrompt(command) ELSE None,
   images |-> images]

\* statistics that keep an old field where the payload has none
DoneStats_Merge(prev, data) ==
  [eval_count |-> IF data.eval_count # 0 THEN data.eval_count ELSE prev.eval_count,
   eval_duration |-> IF data.eval_duration # 0 THEN data.eval_duration
                     ELSE prev.eval_duration]

\* line 150: setAnswerMetadata(data)
DoneStats(prev, data) == data

\* Inference(...) up to its first await: the toast is requested, the rest waits
Infer(rec, query, img) == [rec EXCEPT !.pc = "inferToast", !.text = query, !.image = img]
InferToast == [style |-> "Animated", title |-> "Performing Inference"]
DoneToast == [style |-> "Success", title |-> "Inference Done"]

\* ---- effects ------------------------------------------------------------
\* an effect that never revalidates
Revalidates_Never(old, new) == FALSE

\* lines 265-267: the effect on [showSelectModelForm]
Revalidates(old, new) == old # new /\ ~new

\* A call that a later call supersedes is never applied (usePromise compares its
\* id with the latest one): whatever GetModel still does for it, reading only,
\* leaves no trace.  HandleError continuations ("errRoute") are not calls of
\* GetModel and go on.
Supersede(rec) == IF rec.pc \in {"tags", "storage", "returned"} THEN EndCall ELSE rec

\* the effect on [showSelectModelForm] after setShowSelectModelForm(v); cs is
\* calls as the caller leaves it
RevalidateEffect(v, cs) ==
  IF Revalidates(showSelectModelForm, v)
  THEN /\ lastCallId < MaxCalls
       /\ lastCallId' = lastCallId + 1
       /\ calls' = [c \in CallIds |->
            IF c = lastCallId + 1 THEN [NoCall EXCEPT !.pc = "tags"]
            ELSE Supersede(cs[c])]
       /\ IsLoadingModelGenerate' = TRUE
  ELSE /\ calls' = cs
       /\ UNCHANGED <<lastCallId, IsLoadingModelGenerate>>

\* a view that is mounted anew, its hooks at their initial values, whenever
\* the model-selection sub-view is entered or left
SetShowSelectModelForm_Remount(v, cs) ==
  /\ showSelectModelForm' = v
  /\ RevalidateEffect(v, cs)
  /\ IF v # showSelectModelForm
     THEN /\ loading' = FALSE
          /\ answer' = <<>>
          /\ answerMetadata' = NoStats
          /\ showAnswerMetadata' = FALSE
     ELSE UNCHANGED <<loading, answer, answerMetadata, showAnswerMetadata>>

\* setShowSelectModelForm(v), the re-render and the effect.  Every hook of
\* lines 92-99 is called before the early return of line 269, in the same
\* component: showing the sub-view or the Detail keeps their values.
SetShowSelectModelForm(v, cs) ==
  /\ showSelectModelForm' = v
  /\ RevalidateEffect(v, cs)
  /\ UNCHANGED <<loading, answer, answerMetadata, showAnswerMetadata>>

\* a Run that aborts the streams still open before it starts (cancel-on-retry)
RunStart_Abort(mg) ==
  IF mg = NoDesc
  THEN UNCHANGED <<answer, log, runs, nRuns, ModelGenerateFamilies>>
  ELSE /\ nRuns < MaxRuns
       /\ nRuns' = nRuns + 1
       /\ answer' = RunResetAnswer(answer)
       /\ log' = <<>>
       /\ ModelGenerateFamilies' =
            IF command = "image" THEN <<"clip">> ELSE ModelGenerateFamilies
       /\ runs' = [q \in RunIds |->
            IF q = nRuns + 1
            THEN [NoRun EXCEPT !.pc = IF command = "image" THEN "clipRead" ELSE "primary",
                               !.desc = mg,
                               !.reset = (answer' = <<>>),
                               !.staleDesc = (mg.call < lastCallId)]
            ELSE IF runs[q].pc = "stream" THEN EndRun ELSE runs[q]]

\* Run(), as called with the descriptor mg of the render it closes over
RunStart(mg) ==
  IF mg = NoDesc
  THEN UNCHANGED <<answer, log, runs, nRuns, ModelGenerateFamilies>>
  ELSE /\ nRuns < MaxRuns
       /\ nRuns' = nRuns + 1
       /\ answer' = RunResetAnswer(answer)
       /\ log' = <<>>
       /\ ModelGenerateFamilies' =
            IF command = "image" THEN <<"clip">> ELSE ModelGenerateFamilies
       /\ runs' = [runs EXCEPT ![nRuns + 1] =
            [NoRun EXCEPT !.pc = IF command = "image" THEN "clipRead" ELSE "primary",
                          !.desc = mg,
                          !.reset = (answer' = <<>>),
                          !.staleDesc = (mg.call < lastCallId)]]

\* ---- Init: the view after mount -----------------------------------------
\* usePromise's own effect has issued call 1 and the [showSelectModelForm]
\* effect has revalidated (call 2); the [ModelGenerate] effect ran Run() with
\* no descriptor, which does nothing.  Call 1 is superseded from the start.
\* The "image" branch of Run reads no
\* preference and GetModel with an explicit model reads no persisted value, so
\* one setting stands for all of them there.
Init ==
  /\ command \in Commands
  /\ model \in ExplicitModels
  /\ prefInput \in InputSources
  /\ prefFallback \in BOOLEAN
  /\ command = "image" => (prefInput = "SelectedText" /\ ~prefFallback)
  /\ storage \in {None, "m1"}
  /\ model # None => storage = None
  /\ ModelGenerate = NoDesc
  /\ IsLoadingModelGenerate = TRUE
  /\ lastCallId = 2
  /\ calls = [c \in CallIds |-> IF c = 2 THEN [NoCall EXCEPT !.pc = "tags"]
                                 ELSE IF c = 1 THEN EndCall ELSE NoCall]
  /\ ModelGenerateFamilies = NoFamilies
  /\ loading = FALSE
  /\ answer = <<>>
  /\ answerMetadata = NoStats
  /\ showAnswerMetadata = FALSE
  /\ showSelectModelForm = FALSE
  /\ nRuns = 0
  /\ runs = [r \in RunIds |-> NoRun]
  /\ shown = <<>>
  /\ log = <<>>

\* ---- GetModel (lines 165-176) -------------------------------------------
\* await OllamaApiTags() resolves; with an explicit model GetModel runs to its end
TagsFetched(c) ==
  /\ calls[c].pc = "tags"
  /\ \E tl \in TagLists :
       IF NeedsStorage(model)
       THEN calls' = [calls EXCEPT ![c].pc = "storage", ![c].tags = tl]
       ELSE calls' = [calls EXCEPT ![c].pc = "returned", ![c].tags = tl,
                                   ![c].kind = Lookup(tl, model, c).kind,
                                   ![c].out = Lookup(tl, model, c).out]
  /\ shown' = <<>>
  /\ UNCHANGED <<params, storage, ModelGenerate, IsLoadingModelGenerate, lastCallId,
                 ModelGenerateFamilies, view, answer, nRuns, runs, log>>

\* await OllamaApiTags() rejects
TagsFailed(c) ==
  /\ calls[c].pc = "tags"
  /\ calls' = [calls EXCEPT ![c].pc = "returned", ![c].kind = OtherError]
  /\ shown' = <<>>
  /\ UNCHANGED <<params, storage, ModelGenerate, IsLoadingModelGenerate, lastCallId,
                 ModelGenerateFamilies, view, answer, nRuns, runs, log>>

\* await LocalStorage.getItem(...) resolves; GetModel runs to its end
StorageRead(c) ==
  /\ calls[c].pc = "storage"
  /\ LET res == IF storage = None
                THEN [kind |-> NotConfigured, out |-> NoDesc]
                ELSE Lookup(calls[c].tags, storage, c)
     IN calls' = [calls EXCEPT ![c].pc = "returned", ![c].stored = storage,
                               ![c].read = TRUE, ![c].kind = res.kind,
                               ![c].out = res.out]
  /\ shown' = <<>>
  /\ UNCHANGED <<params, storage, ModelGenerate, IsLoadingModelGenerate, lastCallId,
                 ModelGenerateFamilies, view, answer, nRuns, runs, log>>

\* ---- usePromise(GetModel, [command, model], {onError: HandleError}) -----
\* usePromise takes the outcome of call c, the latest call, and applies it
Apply(c) ==
  /\ calls[c].pc = "returned"
  /\ c = lastCallId
  /\ IF calls[c].kind = None
     THEN \* set({data, isLoading: false}); the [ModelGenerate] effect calls Run()
          /\ ModelGenerate' = calls[c].out
          /\ IsLoadingModelGenerate' = FALSE
          /\ calls' = [calls EXCEPT ![c] = EndCall]
          /\ RunStart(calls[c].out)
          /\ shown' = <<>>
     ELSE \* onError(error) runs up to its first await; set({error, isLoading: false});
          \* the [ModelGenerate] effect calls Run(), which finds no descriptor
          /\ ModelGenerate' = NoDesc
          /\ IsLoadingModelGenerate' = FALSE
          /\ shown' = HandleErrorToasts(calls[c].kind)
          /\ calls' = [calls EXCEPT ![c] =
               IF HandleErrorRoutes(calls[c].kind)
               THEN [EndCall EXCEPT !.pc = "errRoute", !.kind = calls[c].kind]
               ELSE EndCall]
          /\ UNCHANGED <<ModelGenerateFamilies, answer, nRuns, runs, log>>
  /\ UNCHANGED <<params, storage, lastCallId, view>>

\* ---- HandleError after its awaited toast (lines 112-114) ----------------
HandleErrorRoute(cs) ==
  /\ ModelGenerateFamilies' = HandleErrorFamilies(command, ModelGenerateFamilies)
  /\ SetShowSelectModelForm(TRUE, cs)
  /\ shown' = <<>>

\* ... of an error thrown by GetModel
HandleErrorRouteCall(c) ==
  /\ calls[c].pc = "errRoute"
  /\ HandleErrorRoute([calls EXCEPT ![c] = EndCall])
  /\ UNCHANGED <<params, storage, ModelGenerate, nRuns, runs, log>>

\* ... of an error thrown by OllamaApiGenerate
HandleErrorRouteRun(r) ==
  /\ runs[r].pc = "errRoute"
  /\ HandleErrorRoute(calls)
  /\ runs' = [runs EXCEPT ![r] = EndRun]
  /\ UNCHANGED <<params, storage, ModelGenerate, nRuns, log>>

\* ---- Run: input acquisition, any command but "image" (lines 205-253) ----
\* the primary source (getSelectedText() or Clipboard.readText()) settles
AcquirePrimary(r) ==
  /\ runs[r].pc = "primary"
  /\ \E ok \in BOOLEAN :
       IF ok
       THEN /\ runs' = [runs EXCEPT ![r] =
                 Infer([@ EXCEPT !.first = "ok", !.result = "inference"],
                       SourceText(prefInput), None)]
            /\ shown' = <<InferToast>>
       ELSE IF prefFallback
       THEN /\ runs' = [runs EXCEPT ![r].pc = "fallback", ![r].first = "fail"]
            /\ shown' = <<>>
       ELSE /\ runs' = [runs EXCEPT ![r] =
                 [EndRun EXCEPT !.first = "fail",
                                !.result = AcquireFailTitle(prefInput, FALSE)]]
            /\ shown' = <<FailureToast(AcquireFailTitle(prefInput, FALSE))>>
  /\ UNCHANGED <<params, storage, promise, ModelGenerateFamilies, view, answer,
                 nRuns, log>>

\* the other source, tried after the primary one failed, settles
AcquireFallback(r) ==
  /\ runs[r].pc = "fallback"
  /\ \E ok \in BOOLEAN :
       IF ok
       THEN /\ runs' = [runs EXCEPT ![r] =
                 Infer([@ EXCEPT !.second = "ok", !.result = "inference"],
                       SourceText(OtherSource(prefInput)), None)]
            /\ shown' = <<InferToast>>
       ELSE /\ runs' = [runs EXCEPT ![r] =
                 [EndRun EXCEPT !.first = "fail", !.second = "fail",
                                !.result = AcquireFailTitle(prefInput, TRUE)]]
            /\ shown' = <<FailureToast(AcquireFailTitle(prefInput, TRUE))>>
  /\ UNCHANGED <<params, storage, promise, ModelGenerateFamilies, view, answer,
                 nRuns, log>>

\* ---- Run: input acquisition, command "image" (lines 185-204) ------------
\* a second decode that is tried whenever the clipboard holds text
TriesUrl_Always(image, text) == text

\* line 194: if (!image && clip.text); image is what the file decode has left
TriesUrl(image, text) == image = None /\ text

\* await Clipboard.read() resolves
ClipboardRead(r) ==
  /\ runs[r].pc = "clipRead"
  /\ \E file \in BOOLEAN, text \in BOOLEAN :
       runs' = [runs EXCEPT ![r] =
         IF file THEN [@ EXCEPT !.pc = "imgFile", !.clipText = text]
         ELSE IF TriesUrl(None, text) THEN [@ EXCEPT !.pc = "imgUrl", !.clipText = text]
         ELSE [EndRun EXCEPT !.result = "no image"]]
  /\ shown' = <<>>
  /\ UNCHANGED <<params, storage, promise, ModelGenerateFamilies, view, answer,
                 nRuns, log>>

\* GetImageFromFile / GetImageFromUrl settles (from is "imgFile" or "imgUrl");
\* first / second record how the file / the URL decode settled
ImageDecoded(r, from) ==
  /\ runs[r].pc = from
  /\ \E ok \in BOOLEAN :
       LET out == IF ok THEN "ok" ELSE "fail"
           rec == IF from = "imgFile"
                  THEN [runs[r] EXCEPT !.image = IF ok THEN from ELSE None, !.first = out]
                  ELSE [runs[r] EXCEPT !.image = IF ok THEN from ELSE None, !.second = out]
       IN IF ~ok
          THEN \* .catch: the toast is awaited, then undefined is returned
               /\ runs' = [runs EXCEPT ![r] =
                    [rec EXCEPT !.pc = IF from = "imgFile" THEN "imgFileToast"
                                       ELSE "imgUrlToast"]]
               /\ shown' = <<FailureToast("decode")>>
               /\ UNCHANGED <<answer, log>>
          ELSE IF from = "imgFile" /\ TriesUrl(rec.image, rec.clipText)
          THEN /\ runs' = [runs EXCEPT ![r] = [rec EXCEPT !.pc = "imgUrl"]]
               /\ shown' = <<>>
               /\ UNCHANGED <<answer, log>>
          ELSE \* lines 199-201
               /\ answer' = <<ImgTag>>
               /\ log' = <<ImgTag>>
               /\ runs' = [runs EXCEPT ![r] =
                    Infer([rec EXCEPT !.result = "inference", !.clipText = FALSE],
                          " ", rec.image)]
               /\ shown' = <<InferToast>>
  /\ UNCHANGED <<params, storage, promise, ModelGenerateFamilies, view, nRuns>>

ImgFile(r) == ImageDecoded(r, "imgFile")

ImgUrl(r) == ImageDecoded(r, "imgUrl")

\* the toast of a failed file decode is up: line 194
ImgFileToastDone(r) ==
  /\ runs[r].pc = "imgFileToast"
  /\ runs' = [runs EXCEPT ![r] =
       IF TriesUrl(runs[r].image, runs[r].clipText) THEN [@ EXCEPT !.pc = "imgUrl"]
       ELSE [EndRun EXCEPT !.result = "no image"]]
  /\ shown' = <<>>
  /\ UNCHANGED <<params, storage, promise, ModelGenerateFamilies, view, answer,
                 nRuns, log>>

\* the toast of a failed URL decode is up: line 199 finds no image
ImgUrlToastDone(r) ==
  /\ runs[r].pc = "imgUrlToast"
  /\ runs' = [runs EXCEPT ![r] = [EndRun EXCEPT !.result = "no image"]]
  /\ shown' = <<>>
  /\ UNCHANGED <<params, storage, promise, ModelGenerateFamilies, view, answer,
                 nRuns, log>>

\* ---- Inference (lines 133-157) ------------------------------------------
\* after the awaited toast: setLoading(true), build the body, OllamaApiGenerate(body)
InferenceStart(r) ==
  /\ runs[r].pc = "inferToast"
  /\ loading' = TRUE
  /\ runs' = [runs EXCEPT ![r] =
       [NoRun EXCEPT !.pc = "generate", !.desc = runs[r].desc, !.reset = runs[r].reset,
                     !.req = RequestBody(runs[r].desc, runs[r].text, runs[r].image),
                     !.overlap = \E q \in RunIds : runs[q].pc = "stream"]]
  /\ shown' = <<>>
  /\ UNCHANGED <<params, storage, promise, ModelGenerateFamilies, answerMetadata,
                 showAnswerMetadata, showSelectModelForm, answer, nRuns, log>>

\* OllamaApiGenerate resolves with the emitter: both handlers are registered
GenerateOk(r) ==
  /\ runs[r].pc = "generate"
  /\ runs' = [runs EXCEPT ![r] = [NoRun EXCEPT !.pc = "stream", !.reset = runs[r].reset]]
  /\ shown' = <<>>
  /\ UNCHANGED <<params, storage, promise, ModelGenerateFamilies, view, answer,
                 nRuns, log>>

\* OllamaApiGenerate rejects: .catch calls HandleError, which runs to its toast
GenerateFail(r) ==
  /\ runs[r].pc = "generate"
  /\ \E kind \in {NotInstalled, CustomModel, OtherError} :
       /\ shown' = HandleErrorToasts(kind)
       /\ runs' = [runs EXCEPT ![r] =
            IF HandleErrorRoutes(kind)
            THEN [EndRun EXCEPT !.pc = "errRoute", !.kind = kind]
            ELSE EndRun]
  /\ UNCHANGED <<params, storage, promise, ModelGenerateFamilies, view, answer,
                 nRuns, log>>

\* emiter.on("data", ...)
StreamData(r) ==
  /\ runs[r].pc = "stream"
  /\ Len(runs[r].got) < MaxFrags
  /\ \E f \in Fragments :
       /\ answer' = AppendFragment(answer, f)
       /\ log' = Append(log, f)
       /\ runs' = [runs EXCEPT ![r].got = Append(@, f)]
  /\ shown' = <<>>
  /\ UNCHANGED <<params, storage, promise, ModelGenerateFamilies, view, nRuns>>

\* emiter.on("done", ...) up to its awaited toast, the payload drawn from payloads
StreamDoneOf(r, payloads) ==
  /\ runs[r].pc = "stream"
  /\ \E p \in payloads : runs' = [runs EXCEPT ![r].pc = "doneToast", ![r].stats = p]
  /\ shown' = <<DoneToast>>
  /\ UNCHANGED <<params, storage, promise, ModelGenerateFamilies, view, answer,
                 nRuns, log>>

StreamDone(r) == StreamDoneOf(r, DonePayloads)

StreamDoneStats(r) == StreamDoneOf(r, StatPayloads)

\* ... and after it: lines 150-151
DoneFinish(r) ==
  /\ runs[r].pc = "doneToast"
  /\ answerMetadata' = DoneStats(answerMetadata, runs[r].stats)
  /\ loading' = FALSE
  /\ runs' = [runs EXCEPT ![r] = EndRun]
  /\ shown' = <<>>
  /\ UNCHANGED <<params, storage, promise, ModelGenerateFamilies, showAnswerMetadata,
                 showSelectModelForm, answer, nRuns, log>>

\* ---- the actions of <AnswerAction /> (lines 278-297) --------------------
Retry ==
  /\ ActionsShown
  /\ RunStart(ModelGenerate)
  /\ shown' = <<>>
  /\ UNCHANGED <<params, storage, promise, view>>

ChangeModel ==
  /\ ActionsShown
  /\ SetShowSelectModelForm(TRUE, calls)
  /\ shown' = <<>>
  /\ UNCHANGED <<params, storage, ModelGenerate, ModelGenerateFamilies, nRuns, runs, log>>

ToggleMetadata ==
  /\ ActionsShown
  /\ showAnswerMetadata' = ~showAnswerMetadata
  /\ shown' = <<>>
  /\ UNCHANGED <<params, storage, promise, ModelGenerateFamilies, loading,
                 answerMetadata, showSelectModelForm, answer, nRuns, runs, log>>

\* ---- SetModelView -------------------------------------------------------
\* the user picks a model, it is stored under `${command}_model_generate`, and
\* ShowModelView(false) returns to this view
SetModelSubmit ==
  /\ SubViewShown
  /\ \E m \in ModelNames : storage' = m
  /\ SetShowSelectModelForm(FALSE, calls)
  /\ shown' = <<>>
  /\ UNCHANGED <<params, ModelGenerate, ModelGenerateFamilies, nRuns, runs, log>>

Next ==
  \/ \E c \in CallIds : TagsFetched(c) \/ TagsFailed(c) \/ StorageRead(c)
                        \/ Apply(c) \/ HandleErrorRouteCall(c)
  \/ \E r \in RunIds : \/ AcquirePrimary(r) \/ AcquireFallback(r)
                       \/ ClipboardRead(r) \/ ImgFile(r) \/ ImgUrl(r)
                       \/ ImgFileToastDone(r) \/ ImgUrlToastDone(r)
                       \/ InferenceStart(r) \/ GenerateOk(r) \/ GenerateFail(r)
                       \/ StreamData(r) \/ StreamDone(r) \/ DoneFinish(r)
                       \/ HandleErrorRouteRun(r)
  \/ Retry \/ ChangeModel \/ ToggleMetadata \/ SetModelSubmit

Spec == Init /\ [][Next]_vars

\* ---- the view of a text command, with every kind of "done" payload ------
\* AnswerView("fix") with a model persisted and the selection as the only
\* source; the streams deliver any payload of StatPayloads.
InitStats ==
  /\ Init
  /\ command = "fix"
  /\ model = None
  /\ storage = "m1"
  /\ prefInput = "SelectedText"
  /\ ~prefFallback

NextStats ==
  \/ \E c \in CallIds : TagsFetched(c) \/ TagsFailed(c) \/ StorageRead(c)
                        \/ Apply(c) \/ HandleErrorRouteCall(c)
  \/ \E r \in RunIds : \/ AcquirePrimary(r)
                       \/ InferenceStart(r) \/ GenerateOk(r) \/ GenerateFail(r)
                       \/ StreamData(r) \/ StreamDoneStats(r) \/ DoneFinish(r)
                       \/ HandleErrorRouteRun(r)
  \/ Retry \/ ChangeModel \/ ToggleMetadata \/ SetModelSubmit

SpecStats == InitStats /\ [][NextStats]_vars


\* ==== Properties ==========================================================
\* Nothing is pending: no GetModel call, no Run, no stream, no handler.
Idle ==
  /\ \A c \in CallIds : calls[c].pc \in {"unused", "end"}
  /\ \A r \in RunIds : runs[r].pc \in {"unused", "end"}

\* C1: after any failure the loading flag is cleared: once everything that was
\* started has ended (in particular after OllamaApiGenerate failed before a
\* stream was established and HandleError has handled it), loading is false,
\* with no later successful run needed.
C1_LoadingClearedAfterFailure == Idle => ~loading

\* C2: at most one inference stream is active at a time: no generate request
\* is issued while an earlier stream is open and has not delivered "done".
C2_OneStreamAtATime == \A r \in RunIds : ~runs[r].overlap

\* C3 as stated: when the completion event of a run has been handled, the
\* answer is the concatenation of that run's fragments in arrival order, and
\* nothing else.
C3_AnswerIsRunConcatenation ==
  \A r \in RunIds : runs[r].pc = "doneToast" => answer = runs[r].got

ImagePrefix == IF command = "image" THEN <<ImgTag>> ELSE <<>>

\* C3 (amended): the answer is what the latest setAnswer of a Run put there (the
\* empty string, or the image markup) followed by every fragment that arrived
\* since, from whichever stream, in arrival order; and when a completion event
\* is handled in a view that has started a single run, that is the image markup
\* (for "image") followed by exactly that run's fragments in arrival order.
C3_AnswerIsArrivalOrder ==
  /\ answer = log
  /\ \A r \in RunIds :
       (runs[r].pc = "doneToast" /\ nRuns = 1) => answer = ImagePrefix \o runs[r].got

C3_Witness ==
  \E r \in RunIds : /\ runs[r].pc = "doneToast"
                    /\ runs[r].got = <<"a", "a">>
                    /\ answer = <<"a", "a">>

\* C4: every run resets the answer to empty before the first fragment of the
\* stream it opens is appended: a run that has issued its request or is
\* receiving fragments found the answer empty when Run had reset it.
C4_ResetBeforeFirstFragment ==
  \A r \in RunIds : runs[r].pc \in {"generate", "stream", "doneToast"} => runs[r].reset

\* a second run (Retry or a model change) receiving fragments after a first one
\* had filled the answer
C4_Witness ==
  /\ runs[1].pc = "end"
  /\ runs[2].pc = "stream"
  /\ runs[2].got # <<>>
  /\ runs[2].reset
  /\ answerMetadata # NoStats


\* the step returns from the model-selection flow
Returns == showSelectModelForm /\ ~showSelectModelForm'

\* C5: every return from the model-selection flow re-resolves the model by a
\* fresh fetch of the installed-model list (a new GetModel call, waiting for
\* OllamaApiTags, which alone can be applied from then on), and no run is
\* started with a descriptor older than the latest such return.
C5_ReturnRevalidates ==
  /\ [][Returns => /\ lastCallId' = lastCallId + 1
                   /\ calls'[lastCallId'].pc = "tags"
                   /\ IsLoadingModelGenerate']_vars
  /\ [](\A r \in RunIds : ~runs[r].staleDesc)

\* a run started after a return, with the descriptor the revalidation resolved
C5_Witness ==
  \E r \in RunIds : /\ runs[r].pc \in {"primary", "clipRead"}
                    /\ runs[r].desc.call = 3
                    /\ ModelGenerate.call = 3

\* HandleError has got a model error and ends in this step
RouteEnds ==
  \/ \E c \in CallIds : calls[c].pc = "errRoute" /\ calls'[c].pc = "end"
  \/ \E r \in RunIds : runs[r].pc = "errRoute" /\ runs'[r].pc = "end"

\* HandleError gets a model error in this step
RouteBegins ==
  \/ \E c \in CallIds : calls[c].pc # "errRoute" /\ calls'[c].pc = "errRoute"
  \/ \E r \in RunIds : runs[r].pc # "errRoute" /\ runs'[r].pc = "errRoute"

\* C6: a "model not installed" or "model not configured" failure always shows
\* a failure notification and, once HandleError has handled it, the
\* model-selection sub-view is what the view displays, whatever the command
\* (none included).
C6_ModelErrorShowsSubView ==
  /\ [][RouteBegins => (shown' # <<>> /\ shown'[1].style = "Failure")]_vars
  /\ [][RouteEnds => SubViewShown']_vars

ExpectedAcquire(primary, fallback, selOk, clipOk) ==
  LET yields(src) == IF src = "SelectedText" THEN selOk ELSE clipOk
  IN IF yields(primary) THEN <<"inference", SourceText(primary)>>
     ELSE IF fallback /\ yields(OtherSource(primary))
          THEN <<"inference", SourceText(OtherSource(primary))>>
     ELSE IF fallback THEN <<"toast", "NoTextSelectedOrCopied">>
     ELSE IF primary = "SelectedText" THEN <<"toast", "NoTextSelected">>
     ELSE <<"toast", "NoTextCopied">>

\* how a source settled in run record rec (any of the two if it was not tried)
Settled(rec, src) ==
  LET x == IF src = prefInput THEN rec.first ELSE rec.second
  IN IF x = None THEN BOOLEAN ELSE {x = "ok"}

\* C8: for a command other than "image", a run that has finished acquiring its
\* input has started Inference with the text, or shown the notification, that
\* the table above gives; a failing run ends there, with that one failure
\* notification and no Inference.
C8_AcquisitionOutcome ==
  /\ [](command # "image" =>
          \A r \in RunIds :
            runs[r].result # None =>
              \A selOk \in Settled(runs[r], "SelectedText"),
                 clipOk \in Settled(runs[r], "Clipboard") :
                ExpectedAcquire(prefInput, prefFallback, selOk, clipOk) =
                  IF runs[r].pc = "inferToast"
                  THEN <<"inference", runs[r].text>>
                  ELSE <<"toast", runs[r].result>>)
  /\ [][\A r \in RunIds :
          (runs[r].pc \in {"primary", "fallback"} /\ runs'[r].pc = "end")
            => (shown' = <<FailureToast(runs'[r].result)>> /\ UNCHANGED loading)]_vars

\* the clipboard first, then the selection, both without text
C8_Witness ==
  /\ prefInput = "Clipboard"
  /\ \E r \in RunIds : /\ runs[r].pc = "end"
                       /\ runs[r].result = "NoTextSelectedOrCopied"
  /\ shown = <<FailureToast("NoTextSelectedOrCopied")>>

\* the names of a fetched list
Installed(tags) == {tags[i] : i \in DOMAIN tags}

\* GetModel must return the installed descriptor named n, or throw
\* ModelNotInstalled carrying n
ResolvedAs(rec, c, n) ==
  IF n \in Installed(rec.tags)
  THEN rec.kind = None /\ rec.out = [name |-> n, call |-> c]
  ELSE rec.kind = NotInstalled /\ rec.out.name = n

\* C9: GetModel is a function of the explicit name, the persisted value and the
\* installed list: with an explicit name the persisted value is not read; with
\* neither it throws ModelNotConfigured; a name that is not installed gives
\* ModelNotInstalled with that name; otherwise the installed descriptor of that
\* name is returned.
C9_GetModelFunction ==
  \A c \in CallIds :
    /\ model # None => (calls[c].pc # "storage" /\ ~calls[c].read)
    /\ (calls[c].pc = "returned" /\ calls[c].kind # OtherError) =>
         IF model # None THEN ResolvedAs(calls[c], c, model)
         ELSE /\ calls[c].read
              /\ IF calls[c].stored = None THEN calls[c].kind = NotConfigured
                 ELSE ResolvedAs(calls[c], c, calls[c].stored)

\* the persisted name found behind another model of the list
C9_Witness ==
  \E c \in CallIds : /\ calls[c].pc = "returned"
                     /\ calls[c].read
                     /\ calls[c].tags = <<"m2", "m1">>
                     /\ calls[c].out = [name |-> "m1", call |-> c]

\* one failure notification, of a custom-model or unclassified error, and the
\* view as it was
StaysWithOneToast ==
  /\ Len(shown') = 1
  /\ shown'[1].style = "Failure"
  /\ shown'[1].title \in {CustomModel, OtherError}
  /\ UNCHANGED <<showSelectModelForm, ModelGenerateFamilies, answer, answerMetadata,
                 showAnswerMetadata>>

\* C10: HandleError of a custom-model error or of an unclassified error shows
\* exactly one failure notification and stays: only the two model errors ever
\* leave a HandleError waiting to route, every other error ends it at once with
\* showSelectModelForm, the family filter, answer, statistics and the
\* metadata-visibility flag unchanged.  (A returned call that a revalidation
\* supersedes in the same step is not handed to HandleError.)
C10_OtherErrorsStay ==
  /\ [][\A r \in RunIds :
          (runs[r].pc = "generate" /\ runs'[r].pc \notin {"generate", "stream"})
            => \/ runs'[r].pc = "errRoute" /\ runs'[r].kind \in {NotInstalled, NotConfigured}
               \/ runs'[r].pc = "end" /\ StaysWithOneToast]_vars
  /\ [][\A c \in CallIds :
          (calls[c].pc = "returned" /\ calls'[c].pc # "returned"
             /\ c = lastCallId /\ lastCallId' = lastCallId
             /\ calls[c].kind \in {CustomModel, OtherError})
            => (calls'[c].pc = "end" /\ StaysWithOneToast)]_vars

\* a custom-model error was notified while the metadata panel was switched on
C10_Witness ==
  /\ shown = <<FailureToast(CustomModel)>>
  /\ ~showSelectModelForm
  /\ showAnswerMetadata
  /\ answerMetadata # NoStats

\* the run is deciding what to pass to Inference for "image"
ImageSteps == {"clipRead", "imgFile", "imgFileToast", "imgUrl", "imgUrlToast"}

\* C11: for "image", the file reference is decoded first and the clipboard text
\* is decoded as a URL only when the file gave no image (absent, or its decode
\* failed) and the clipboard holds text; each failed decode shows its own
\* failure notification and the run goes on; Inference starts exactly when one
\* of the two decodes gave an image, with that image; a run that got none ends
\* without a request.
C11_ImageAcquisition ==
  /\ [](command = "image" =>
          \A r \in RunIds :
            /\ runs[r].pc = "imgFile" => (runs[r].first = None /\ runs[r].second = None)
            /\ runs[r].pc = "imgUrl" =>
                 /\ runs[r].image = None
                 /\ runs[r].first \in {None, "fail"}
                 /\ runs[r].second = None
                 /\ runs[r].clipText
            /\ runs[r].pc = "inferToast" =>
                 \/ runs[r].image = "imgFile" /\ runs[r].first = "ok" /\ runs[r].second = None
                 \/ runs[r].image = "imgUrl" /\ runs[r].first # "ok" /\ runs[r].second = "ok"
            /\ runs[r].pc = "generate" => runs[r].req.images \in {"imgFile", "imgUrl"})
  /\ [][\A r \in RunIds :
          /\ (runs[r].pc \in {"imgFile", "imgUrl"} /\ runs'[r].pc \in {"imgFileToast", "imgUrlToast"})
               => /\ shown' = <<FailureToast("decode")>>
                  /\ UNCHANGED <<loading, showSelectModelForm, answer>>
          /\ (runs[r].pc = "imgFileToast" /\ runs'[r].pc # "imgFileToast")
               => runs'[r].pc = IF runs[r].clipText THEN "imgUrl" ELSE "end"
          /\ (runs[r].pc \in ImageSteps /\ runs'[r].pc = "end")
               => /\ runs[r].pc \in {"clipRead", "imgFileToast", "imgUrlToast"}
                  /\ runs'[r].result = "no image"
                  /\ UNCHANGED <<loading, answer>>
          /\ (runs[r].pc \in ImageSteps /\ runs'[r].pc \notin ImageSteps \cup {"end"})
               => /\ runs[r].pc \in {"imgFile", "imgUrl"}
                  /\ runs'[r].pc = "inferToast"
                  /\ runs'[r].image = runs[r].pc
                  /\ shown' = <<InferToast>>]_vars

\* the file decode failed, the URL decode gave the image Inference is called with
C11_Witness ==
  \E r \in RunIds : /\ runs[r].pc = "inferToast"
                    /\ runs[r].first = "fail"
                    /\ runs[r].image = "imgUrl"
                    /\ answer = <<ImgTag>>

\* C12: the generation speed on display is eval_count divided by eval_duration
\* taken from nanoseconds to seconds, with two decimals (the hundredth nearest
\* to the quotient), "25.00 token/s" for 50 tokens in 2 000 000 000 ns; the
\* label is on display only with both fields non-zero, so nothing is divided
\* by zero.
C12_SpeedLabel ==
  LET count == answerMetadata.eval_count
      ms == answerMetadata.eval_duration \div 1000000
  IN /\ SpeedLabel # None =>
          /\ count # 0 /\ answerMetadata.eval_duration # 0
          /\ answerMetadata.eval_duration % 1000000 = 0
          /\ \E h \in 0..(100 * count) :
               /\ 2 * h * ms - 200000 * count \in (0 - ms)..ms
               /\ SpeedLabel = ToString(h \div 100) \o "."
                                 \o ToString((h % 100) \div 10) \o ToString(h % 10)
                                 \o " token/s"
     /\ (MetadataShown /\ answerMetadata = [eval_count |-> 50, eval_duration |-> 2000000000])
          => SpeedLabel = "25.00 token/s"

\* two thirds of a token per second, on display rounded up
C12_Witness ==
  /\ answerMetadata = [eval_count |-> 1, eval_duration |-> 1500000000]
  /\ SpeedLabel = "0.67 token/s"

\* the "done" event of run r is handled to its end in this step
DoneHandled(r) == runs[r].pc = "doneToast" /\ runs'[r].pc # "doneToast"

\* C13: handling the "done" event of a stream puts that event's payload in the
\* place of the statistics, all of it, and clears loading; a stream gets there
\* once (from "stream" through the handler to its end, and an ended run stays
\* ended); the statistics change in no other step, and no "data" event changes
\* the statistics or loading.
C13_DoneReplacesStats ==
  [][/\ \A r \in RunIds :
          /\ DoneHandled(r) => /\ answerMetadata' = runs[r].stats
                               /\ ~loading'
                               /\ runs'[r].pc = "end"
          /\ (runs[r].pc = "stream" /\ runs'[r].pc # "stream")
               => (runs'[r].pc = "doneToast" /\ runs'[r].stats \in StatPayloads)
          /\ runs[r].pc = "end" => runs'[r].pc = "end"
          /\ Len(runs'[r].got) > Len(runs[r].got) => UNCHANGED <<answerMetadata, loading>>
     /\ answerMetadata' # answerMetadata => \E r \in RunIds : DoneHandled(r)
     /\ (loading /\ ~loading') => \E r \in RunIds : DoneHandled(r)]_vars

\* the statistics are the payload of the first stream, which had no token
\* count, and the "done" event of the second stream, with another payload, is
\* being handled
C13_Witness ==
  /\ runs[1].pc = "end"
  /\ answerMetadata = [eval_count |-> 0, eval_duration |-> 2000000000]
  /\ ~loading
  /\ runs[2].pc = "doneToast"
  /\ runs[2].stats = [eval_count |-> 50, eval_duration |-> 0]

\* C14: nothing is cancelled: a run that starts leaves every earlier run, its
\* open stream included, as it is, and every fragment a stream delivers is
\* appended to the answer as it then is; so a fragment of a stream opened by an
\* earlier run can land in an answer that a later run has reset (C14_Witness).
C14_NoCancellation ==
  [][/\ nRuns' > nRuns => \A r \in RunIds : r <= nRuns => runs'[r] = runs[r]
     /\ \A r \in RunIds :
          Len(runs'[r].got) > Len(runs[r].got)
            => /\ runs[r].pc = "stream"
               /\ answer' = Append(answer, runs'[r].got[Len(runs'[r].got)])]_vars

\* the stream of run 1 had delivered "a" when run 2 reset the answer, and has
\* delivered "b" since: the reset answer of run 2, still acquiring its input,
\* holds a fragment of the earlier stream
C14_Witness ==
  /\ command = "fix"
  /\ runs[1].pc = "stream"
  /\ runs[1].got = <<"a", "b">>
  /\ runs[2].pc = "primary"
  /\ answer = <<"b">>

\* the step enters the model-selection flow
Enters == ~showSelectModelForm /\ showSelectModelForm'

\* C15 as stated: the return from the model-selection sub-view finds the view
\* state destroyed: answer, statistics, loading and metadata visibility are
\* what a new view starts with, none of the earlier values.
C15_StateDestroyedOnNavigation ==
  [][Returns => /\ answer' = <<>>
                /\ answerMetadata' = NoStats
                /\ ~loading'
                /\ ~showAnswerMetadata']_vars

\* C15 (amended): the view state is kept across the model-selection sub-view:
\* neither the step that enters it nor the step that returns from it changes
\* answer, statistics, loading or metadata visibility, so the return finds
\* whatever they held when it was made.
C15_StateKeptAcrossSubView ==
  [][(Enters \/ Returns)
       => UNCHANGED <<answer, answerMetadata, loading, showAnswerMetadata>>]_vars

\* the view has just returned from the sub-view (call 3 is the revalidation of
\* the return and nothing else is pending) and shows the answer and the
\* statistics of the run that finished before the sub-view was entered
C15_Witness ==
  /\ ~showSelectModelForm
  /\ lastCallId = 3
  /\ calls[3].pc = "tags"
  /\ \A r \in RunIds : runs[r].pc \in {"unused", "end"}
  /\ answer # <<>>
  /\ answerMetadata # NoStats
  /\ showAnswerMetadata
  /\ ~loading

\* C16: while a stream is open and has not delivered its "done" event, loading
\* is true (so Retry and Change Model are not offered).
C16_LoadingWhileStreaming ==
  \A r \in RunIds : runs[r].pc = "stream" => loading

\* C17: after model resolution has failed (no descriptor is resolved) and the
\* user has stored the name of an installed model in the model-selection flow
\* and returned, the resolution that the return starts (a call after the two of
\* the mount) succeeds with the chosen model, whether or not the view was given
\* an explicit model name.
C17_ChosenModelResolves ==
  \A c \in CallIds :
    (/\ c > 2
     /\ calls[c].pc = "returned"
     /\ calls[c].kind # OtherError
     /\ ModelGenerate = NoDesc
     /\ storage \in Installed(calls[c].tags))
      => (calls[c].kind = None /\ calls[c].out.name = storage)

\* C18: a generate request is issued, and the answer is reset by a Run, only
\* while a model descriptor is resolved; the request carries the name of the
\* resolved descriptor as its model and, with a command set, the registry
\* entry of the command as its system prompt.
C18_RequestsUseResolvedModel ==
  [][/\ \A r \in RunIds :
          (runs[r].pc # "generate" /\ runs'[r].pc = "generate")
            => /\ ModelGenerate # NoDesc
               /\ runs'[r].req.model = ModelGenerate.name
               /\ runs'[r].req.system =
                    IF command # None THEN defaultPrompt(command) ELSE None
     /\ nRuns' > nRuns => (ModelGenerate' # NoDesc /\ answer' = <<>>)]_vars

====
